---- MODULE Spec2Model ----
(***************************************************************************)
(* Filter-list lifecycle engine of AdGuardHome (home/filter.go): the       *)
(* single-flight guard of the refresh cycle, the filter store, the id      *)
(* assignment at start-up, the refresh orchestrator and the fetch          *)
(* pipeline.                                                               *)
(*                                                                         *)
(* The module holds several specifications over one set of variables:      *)
(*   SpecGuard  the scheduler and the callers of refreshFilters racing on  *)
(*              refreshStatus and refreshLock (the cycle body is opaque);  *)
(*   SpecPlain  SpecGuard restricted to important = false;                 *)
(*   SpecGuardFair  SpecGuard under fair scheduling;                       *)
(*   SpecStartup  initFiltering and the first assignUniqueFilterID;        *)
(*   SpecFetch  one filter.update, read by read;                           *)
(*   SpecStore  filterAdd, filterSetProperties and filterExists called by  *)
(*              several threads;                                           *)
(*   Spec       one thread calling filterAdd and filterSetProperties       *)
(*              beside the refresh cycles of refreshFiltersIfNecessary;    *)
(*   SpecRepeat refresh cycles in succession on unchanged upstreams while  *)
(*              the clock advances;                                        *)
(*   SpecLoad   filter.load() on the possible contents of a file.          *)
(* Variables a specification does not use keep their initial value.        *)
(***************************************************************************)
EXTENDS Integers, Sequences, FiniteSets, TLC

VARIABLES
    \* ---- single-flight guard (filter.go:23-28, 244-285)
    refreshStatus,   \* uint32: 0 none, 1 in progress
    refreshLock,     \* sync.Mutex: the thread holding it, or NoThread
    pc,              \* per thread: its position in periodicallyRefreshFilters / refreshFilters
    important,       \* per caller: the `important` argument of the call in progress
    set,             \* per caller: the result of the compare-and-swap
    result,          \* per caller: what the last call returned
    isNetworkErr,    \* the scheduler's local of that name
    intval,          \* the scheduler's sleep interval, seconds
    updateIntervalHours,  \* config.DNS.FiltersUpdateIntervalHours
    \* ---- filter store (filter.go:23-24, 60-70)
    Filters,           \* config.Filters: the block-list collection
    WhitelistFilters,  \* config.WhitelistFilters: the allow-list collection
    nextFilterID,      \* the shared id counter
    \* ---- file system and clock
    files,             \* per filter id: the file at filter.Path()
    now,               \* time.Now(), in hours
    \* ---- start-up
    ipc,               \* the call initFiltering makes next
    lastAssigned,      \* the id returned by assignUniqueFilterID after start-up (0: none yet)
    \* ---- content fetch
    dl,                \* the filter.update() in progress, step by step
    \* ---- store operations and refresh cycle
    configLock,        \* config's sync.RWMutex: its writer and its readers
    adm,               \* per administrator thread: the store operation in progress
    rf,                \* the refresh cycle in progress: position and locals
    ret                \* what the step just taken returned to its caller; NoRet
                       \* after any other step

guardVars == <<refreshStatus, refreshLock, pc, important, set, result,
               isNetworkErr, intval, updateIntervalHours>>

storeVars == <<Filters, WhitelistFilters, nextFilterID>>
fsVars == <<files, now>>
startVars == <<ipc, lastAssigned>>

mainVars == <<configLock, adm, rf, ret>>

vars == <<guardVars, storeVars, fsVars, startVars, dl, mainVars>>

----------------------------------------------------------------------------
(* Bounds *)

\* Number of request-handling threads that call refreshFilters.
NumCallers == 2
\* Start-up: the largest persisted id, and the most filters the configuration
\* holds in the block-list and in the allow-list collection.
MaxPersistedID == 3
MaxConfigured == 2
MaxConfiguredWhite == 1
\* updateIntl: the length of firstChunk (4*1024 in the code) and of buf
\* (64*1024 in the code), scaled down.
FirstChunkSize == 10
BufSize == 12
\* How far the clock advances.
MaxTicks == 2
\* The longest content of a file that filter.load() is applied to.
MaxContentLen == 4
\* Number of request-handling threads that call filterAdd, filterSetProperties
\* and filterExists.
NumAdmins == 2
\* The ids a filter can get in the model.
MaxID == MaxPersistedID + MaxConfigured + MaxConfiguredWhite + 2
IDs == 0..MaxID

----------------------------------------------------------------------------
(* Threads *)

NoThread == "none"
Sched == "sched"
Callers == {"caller" \o ToString(i) : i \in 1..NumCallers}
Threads == {Sched} \cup Callers

\* periodicallyRefreshFilters: const maxInterval = 1 * 60 * 60
maxInterval == 3600
\* periodicallyRefreshFilters: intval := 5
initialIntval == 5

ErrAlreadyRunning == "Filters update procedure is already running"
RetNil == "nil"
RetNone == "no call yet"

\* A thread is executing the body of a refresh cycle: it is inside
\* refreshFiltersIfNecessary, between refreshLock.Lock() and refreshLock.Unlock().
InBody(t) == pc[t] = "body"
BodyRunning == \E t \in Threads : InBody(t)

\* A thread holds the guard: its compare-and-swap set refreshStatus and it has
\* not yet reset it.
HoldsGuard(t) ==
    /\ pc[t] \in {"lock", "body", "unlock", "reset"}
    /\ (t \in Callers => set[t])

----------------------------------------------------------------------------
(* sync.Mutex *)

\* refreshLock.Lock(): blocks until the mutex is free, then takes it.
RefreshLockLock(t) ==
    /\ refreshLock = NoThread
    /\ refreshLock' = t

\* refreshLock.Unlock()
RefreshLockUnlock(t) ==
    /\ refreshLock = t
    /\ refreshLock' = NoThread

----------------------------------------------------------------------------
(* atomic.CompareAndSwapUint32(addr, old, new): whether it swapped, and the
   value it leaves at addr *)

CompareAndSwapOk(cur, old) == cur = old
CompareAndSwapValue(cur, old, new) == IF cur = old THEN new ELSE cur

----------------------------------------------------------------------------
(* periodicallyRefreshFilters *)

\* Top of the loop: isNetworkErr := false; the condition
\* FiltersUpdateIntervalHours != 0 && CompareAndSwapUint32(&refreshStatus, 0, 1).
\* A false condition skips the tick and goes to the backoff test and the sleep.
SchedTick ==
    /\ pc[Sched] = "loop"
    /\ isNetworkErr' = FALSE
    /\ IF updateIntervalHours # 0 /\ CompareAndSwapOk(refreshStatus, 0)
          THEN /\ refreshStatus' = CompareAndSwapValue(refreshStatus, 0, 1)
               /\ pc' = [pc EXCEPT ![Sched] = "lock"]
          ELSE /\ refreshStatus' = refreshStatus
               /\ pc' = [pc EXCEPT ![Sched] = "sleep"]
    /\ UNCHANGED <<refreshLock, important, set, result, intval, updateIntervalHours>>

\* refreshLock.Lock() at line 250.
SchedLock ==
    /\ pc[Sched] = "lock"
    /\ RefreshLockLock(Sched)
    /\ pc' = [pc EXCEPT ![Sched] = "body"]
    /\ UNCHANGED <<refreshStatus, important, set, result, isNetworkErr, intval,
                   updateIntervalHours>>

\* _, isNetworkErr = refreshFiltersIfNecessary(...) returns.
SchedBody(netErr) ==
    /\ pc[Sched] = "body"
    /\ isNetworkErr' = netErr
    /\ pc' = [pc EXCEPT ![Sched] = "unlock"]
    /\ UNCHANGED <<refreshStatus, refreshLock, important, set, result, intval,
                   updateIntervalHours>>

\* refreshLock.Unlock() at line 252.
SchedUnlock ==
    /\ pc[Sched] = "unlock"
    /\ RefreshLockUnlock(Sched)
    /\ pc' = [pc EXCEPT ![Sched] = "reset"]
    /\ UNCHANGED <<refreshStatus, important, set, result, isNetworkErr, intval,
                   updateIntervalHours>>

\* A scheduler that goes back to the initial interval after a cycle without a
\* total network failure.
SchedResetToInitial ==
    /\ pc[Sched] = "reset"
    /\ refreshStatus' = 0
    /\ intval' = IF ~isNetworkErr THEN initialIntval ELSE intval
    /\ pc' = [pc EXCEPT ![Sched] = "sleep"]
    /\ UNCHANGED <<refreshLock, important, set, result, isNetworkErr,
                   updateIntervalHours>>

\* refreshStatus = 0; if !isNetworkErr { intval = maxInterval }
SchedReset ==
    /\ pc[Sched] = "reset"
    /\ refreshStatus' = 0
    /\ intval' = IF ~isNetworkErr THEN maxInterval ELSE intval
    /\ pc' = [pc EXCEPT ![Sched] = "sleep"]
    /\ UNCHANGED <<refreshLock, important, set, result, isNetworkErr,
                   updateIntervalHours>>

\* if isNetworkErr { intval *= 2; cap at maxInterval }; time.Sleep(intval)
SchedSleep ==
    /\ pc[Sched] = "sleep"
    /\ intval' = IF isNetworkErr
                    THEN (IF intval * 2 > maxInterval THEN maxInterval ELSE intval * 2)
                    ELSE intval
    /\ pc' = [pc EXCEPT ![Sched] = "loop"]
    /\ UNCHANGED <<refreshStatus, refreshLock, important, set, result, isNetworkErr,
                   updateIntervalHours>>

----------------------------------------------------------------------------
(* refreshFilters(flags, important) *)

\* A refreshFilters that stores 1 into refreshStatus instead of comparing and
\* swapping: set is always true.
RefreshFiltersCallStore(t, imp) ==
    /\ pc[t] = "idle"
    /\ important' = [important EXCEPT ![t] = imp]
    /\ set' = [set EXCEPT ![t] = TRUE]
    /\ refreshStatus' = 1
    /\ pc' = [pc EXCEPT ![t] = "lock"]
    /\ result' = [result EXCEPT ![t] = RetNone]
    /\ UNCHANGED <<refreshLock, isNetworkErr, intval, updateIntervalHours>>

\* Lines 275-278: set := CompareAndSwapUint32(&refreshStatus, 0, 1);
\* if !important && !set { return 0, error }.
RefreshFiltersCall(t, imp) ==
    /\ pc[t] = "idle"
    /\ important' = [important EXCEPT ![t] = imp]
    /\ set' = [set EXCEPT ![t] = CompareAndSwapOk(refreshStatus, 0)]
    /\ refreshStatus' = CompareAndSwapValue(refreshStatus, 0, 1)
    /\ IF ~imp /\ ~CompareAndSwapOk(refreshStatus, 0)
          THEN /\ pc' = [pc EXCEPT ![t] = "ret"]
               /\ result' = [result EXCEPT ![t] = ErrAlreadyRunning]
          ELSE /\ pc' = [pc EXCEPT ![t] = "lock"]
               /\ result' = [result EXCEPT ![t] = RetNone]
    /\ UNCHANGED <<refreshLock, isNetworkErr, intval, updateIntervalHours>>

\* A refreshFilters that goes on to the cycle without taking refreshLock.
RefreshFiltersNoLock(t) ==
    /\ pc[t] = "lock"
    /\ pc' = [pc EXCEPT ![t] = "body"]
    /\ UNCHANGED <<refreshStatus, refreshLock, important, set, result, isNetworkErr,
                   intval, updateIntervalHours>>

\* refreshLock.Lock() at line 280.
RefreshFiltersLock(t) ==
    /\ pc[t] = "lock"
    /\ RefreshLockLock(t)
    /\ pc' = [pc EXCEPT ![t] = "body"]
    /\ UNCHANGED <<refreshStatus, important, set, result, isNetworkErr, intval,
                   updateIntervalHours>>

\* nUpdated, _ := refreshFiltersIfNecessary(flags) returns.
RefreshFiltersBody(t) ==
    /\ pc[t] = "body"
    /\ pc' = [pc EXCEPT ![t] = "unlock"]
    /\ UNCHANGED <<refreshStatus, refreshLock, important, set, result, isNetworkErr,
                   intval, updateIntervalHours>>

\* A refreshFilters that returns without refreshLock.Unlock().
RefreshFiltersKeepsLock(t) ==
    /\ pc[t] = "unlock"
    /\ pc' = [pc EXCEPT ![t] = "reset"]
    /\ UNCHANGED <<refreshStatus, refreshLock, important, set, result, isNetworkErr,
                   intval, updateIntervalHours>>

\* refreshLock.Unlock() at line 282.
RefreshFiltersUnlock(t) ==
    /\ pc[t] = "unlock"
    /\ RefreshLockUnlock(t)
    /\ pc' = [pc EXCEPT ![t] = "reset"]
    /\ UNCHANGED <<refreshStatus, important, set, result, isNetworkErr, intval,
                   updateIntervalHours>>

\* refreshStatus = 0; return nUpdated, nil
RefreshFiltersReset(t) ==
    /\ pc[t] = "reset"
    /\ refreshStatus' = 0
    /\ pc' = [pc EXCEPT ![t] = "ret"]
    /\ result' = [result EXCEPT ![t] = RetNil]
    /\ UNCHANGED <<refreshLock, important, set, isNetworkErr, intval,
                   updateIntervalHours>>

\* The caller has its answer and may call again.
RefreshFiltersReturned(t) ==
    /\ pc[t] = "ret"
    /\ pc' = [pc EXCEPT ![t] = "idle"]
    /\ UNCHANGED <<refreshStatus, refreshLock, important, set, result, isNetworkErr,
                   intval, updateIntervalHours>>

----------------------------------------------------------------------------
(* The guard's initial state *)

GuardInit ==
    /\ refreshStatus = 0
    /\ refreshLock = NoThread
    /\ pc = [t \in Threads |-> IF t = Sched THEN "loop" ELSE "idle"]
    /\ important = [t \in Callers |-> FALSE]
    /\ set = [t \in Callers |-> FALSE]
    /\ result = [t \in Callers |-> RetNone]
    /\ isNetworkErr = FALSE
    /\ intval = initialIntval
    /\ updateIntervalHours \in {0, 1}

\* The guard at rest, for the specifications that do not exercise it.
GuardIdle == GuardInit /\ updateIntervalHours = 1

----------------------------------------------------------------------------
(* Bytes and contents.  A content is a sequence of bytes; a byte is written
   as a one-character string, or as NUL (0x00), BIN (a control byte below
   0x20 other than TAB, LF, CR) or DEL (0x7f). *)

NUL == "NUL"
Alphabet ==
    <<"NUL", "BIN", "\t", "\n", "\r", " ", "!", ":", "<", ">", "^", "|",
      "A", "B", "C", "D", "E", "F", "G", "H", "I", "J", "K", "L", "M",
      "N", "O", "P", "Q", "R", "S", "T", "U", "V", "W", "X", "Y", "Z",
      "a", "b", "c", "d", "e", "f", "g", "h", "i", "j", "k", "l", "m",
      "n", "o", "p", "q", "r", "s", "t", "u", "v", "w", "x", "y", "z", "DEL">>
ByteVal(c) == CHOOSE i \in 1..Len(Alphabet) : Alphabet[i] = c

Upper == <<"A", "B", "C", "D", "E", "F", "G", "H", "I", "J", "K", "L", "M",
           "N", "O", "P", "Q", "R", "S", "T", "U", "V", "W", "X", "Y", "Z">>
Lower == <<"a", "b", "c", "d", "e", "f", "g", "h", "i", "j", "k", "l", "m",
           "n", "o", "p", "q", "r", "s", "t", "u", "v", "w", "x", "y", "z">>

\* strings.ToLower
ToLowerByte(c) ==
    IF \E i \in 1..Len(Upper) : Upper[i] = c
       THEN Lower[CHOOSE i \in 1..Len(Upper) : Upper[i] = c]
       ELSE c
ToLower(s) == [i \in 1..Len(s) |-> ToLowerByte(s[i])]

\* strings.Index(s, pat) >= 0
Contains(s, pat) ==
    \E i \in 1..(Len(s) - Len(pat) + 1) : SubSeq(s, i, i + Len(pat) - 1) = pat

\* strings.TrimSpace
Whitespace == {"\t", "\n", "\r", " "}
RECURSIVE TrimLeft(_)
TrimLeft(s) ==
    IF s # <<>> /\ Head(s) \in Whitespace THEN TrimLeft(Tail(s)) ELSE s
RECURSIVE TrimRight(_)
TrimRight(s) ==
    IF s # <<>> /\ s[Len(s)] \in Whitespace
       THEN TrimRight(SubSeq(s, 1, Len(s) - 1))
       ELSE s
TrimSpace(s) == TrimRight(TrimLeft(s))

\* isPrintableText: every byte is >= ' ' and not 0x7f, or is LF, CR or TAB.
isPrintableText(data) ==
    \A i \in 1..Len(data) : data[i] \notin {"NUL", "BIN", "DEL"}

\* crc32.Update(crc, crc32.IEEETable, p).  The CRC is modelled by a polynomial
\* checksum of ChecksumMod values: it is folded byte by byte over the data,
\* depends on every byte it is given, and leaves crc unchanged on no bytes.
ChecksumMod == 65536
RECURSIVE crc32Update(_, _)
crc32Update(crc, p) ==
    IF p = <<>>
       THEN crc
       ELSE crc32Update((crc * 31 + ByteVal(Head(p))) % ChecksumMod, Tail(p))

\* filterTitleRegexp = `^! Title: +(.*)$` applied to a trimmed line: whether it
\* matches, and the submatch (the text after the run of spaces).
TitlePrefix == <<"!", " ", "T", "i", "t", "l", "e", ":", " ">>
RECURSIVE SkipSpaces(_)
SkipSpaces(s) == IF s # <<>> /\ Head(s) = " " THEN SkipSpaces(Tail(s)) ELSE s
TitleMatches(line) ==
    /\ Len(line) >= Len(TitlePrefix)
    /\ SubSeq(line, 1, Len(TitlePrefix)) = TitlePrefix
    /\ \A i \in 1..Len(line) : line[i] # "\n"
TitleSubmatch(line) == SkipSpaces(SubSeq(line, Len(TitlePrefix) + 1, Len(line)))

\* bufio.Reader.ReadString('\n') from position pos (1-based): the index of the
\* next LF, or 0 when the data ends before one (ReadString then returns the
\* rest together with io.EOF).
NextLF(data, pos) ==
    IF \E i \in pos..Len(data) : data[i] = "\n"
       THEN CHOOSE i \in pos..Len(data) :
                /\ data[i] = "\n"
                /\ \A j \in pos..(i - 1) : data[j] # "\n"
       ELSE 0

\* The loop of parseFilterContents from position pos, with the locals in acc.
RECURSIVE parseLoop(_, _, _)
parseLoop(data, pos, acc) ==
    LET lf == NextLF(data, pos) IN
    IF lf = 0
       THEN acc        \* err != nil: break
       ELSE
         LET raw == SubSeq(data, pos, lf)
             line == TrimSpace(raw)
             sum == crc32Update(acc.checksum, raw)
             acc1 == [acc EXCEPT !.checksum = sum]
             acc2 ==
                IF line = <<>> THEN acc1
                ELSE IF line[1] = "!"
                   THEN IF TitleMatches(line) /\ ~acc.seenTitle
                           THEN [acc1 EXCEPT !.name = TitleSubmatch(line),
                                             !.seenTitle = TRUE]
                           ELSE acc1
                   ELSE [acc1 EXCEPT !.rulesCount = acc.rulesCount + 1]
         IN parseLoop(data, lf + 1, acc2)

\* parseFilterContents(f): rulesCount, checksum, name.
parseFilterContents(data) ==
    parseLoop(data, 1, [rulesCount |-> 0, checksum |-> 0, name |-> <<>>,
                        seenTitle |-> FALSE])

\* Contents served by the upstreams and found on disk.
BodyA == <<"!", " ", "T", "i", "t", "l", "e", ":", " ", "A", "\n", "|", "|", "a", "^", "\n">>
BodyB == <<"|", "|", "a", "^", "\n", "|", "|", "b", "^", "\n", "|", "|", "c">>
BodyHTML == <<"<", "H", "T", "M", "L", ">", "<", "b", "o", "d", "y", ">", "\n">>
BodyBin == <<"|", "|", "a", "^", "\n", "BIN", "|", "|", "b", "^", "\n", "|", "|">>
BodyShort == <<"|", "|", "s", "^", "\n">>
BodyOld == <<"|", "|", "o", "l", "d", "^", "\n">>

----------------------------------------------------------------------------
(* Filters, the two collections and the content files *)

\* time.Time{}: the zero time.  Time is counted in hours; the clock starts at
\* StartTime, later than the zero time by more than any refresh interval, as
\* the Unix clock is.
ZeroTime == 0
StartTime == 3

URLs == {"u1", "u2"}
DefaultName == <<"n">>

\* A filter as filterAdd's caller or the configuration file provides it: no
\* content loaded yet.
NewFilter(id, url, enabled, white) ==
    [ID |-> id, URL |-> url, Name |-> DefaultName, Enabled |-> enabled,
     RulesCount |-> 0, LastUpdated |-> ZeroTime, checksum |-> 0, white |-> white]

\* The file at filter.Path(), <data-dir>/filters/<ID>.txt: NoFile, or its bytes
\* and its modification time.
NoFile == [exists |-> FALSE]
File(data, mtime) == [exists |-> TRUE, data |-> data, mtime |-> mtime]

\* No filter.update() in progress.
dlIdle == [pc |-> "idle"]

\* config.DNS.FilteringEnabled
FilteringEnabled == TRUE

\* No value was returned by the step just taken.
NoRet == [op |-> "none"]

\* Nothing handed to dnsFilter.SetFilters.
NoDescriptors == [filters |-> {}, whiteFilters |-> {}]

\* The store operations and the refresh cycle at rest, for the specifications
\* that do not exercise them.
MainIdle ==
    /\ configLock = [w |-> "none", r |-> {}]
    /\ adm = <<>>
    /\ rf = [pc |-> "idle"]
    /\ ret = NoRet

\* filter.unload()
unload(f) == [f EXCEPT !.RulesCount = 0, !.checksum = 0]

\* filter.load(): the filter afterwards, and whether load returned an error.
loadErr(f, fs) == ~fs[f.ID].exists
load(f, fs) ==
    IF loadErr(f, fs)
       THEN f
       ELSE LET p == parseFilterContents(fs[f.ID].data) IN
            [f EXCEPT !.RulesCount = p.rulesCount,
                      !.checksum = p.checksum,
                      !.LastUpdated = fs[f.ID].mtime]

\* A filterExistsNoLock that looks through the block-lists only.
filterExistsBlockListsOnly(url) ==
    \E i \in 1..Len(Filters) : Filters[i].URL = url

\* filterExistsNoLock(url)
filterExistsNoLock(url) ==
    \/ \E i \in 1..Len(Filters) : Filters[i].URL = url
    \/ \E i \in 1..Len(WhitelistFilters) : WhitelistFilters[i].URL = url

----------------------------------------------------------------------------
(* initFiltering *)

\* loadFilters(array) from index i on, with the id counter at next: the array
\* and the counter afterwards.  A zero ID is replaced by assignUniqueFilterID()
\* (value := nextFilterID; nextFilterID++); an enabled filter is loaded.
RECURSIVE loadFiltersFrom(_, _, _, _)
loadFiltersFrom(array, i, next, fs) ==
    IF i > Len(array)
       THEN [array |-> array, next |-> next]
       ELSE LET f0 == array[i]
                f1 == IF f0.ID = 0 THEN [f0 EXCEPT !.ID = next] ELSE f0
                next1 == IF f0.ID = 0 THEN next + 1 ELSE next
                f2 == IF f1.Enabled THEN load(f1, fs) ELSE f1
            IN loadFiltersFrom([array EXCEPT ![i] = f2], i + 1, next1, fs)
loadFilters(array, next, fs) == loadFiltersFrom(array, 1, next, fs)

\* deduplicateFilters(): keeps the first filter of each URL of config.Filters.
RECURSIVE deduplicateFrom(_, _, _)
deduplicateFrom(array, i, kept) ==
    IF i > Len(array)
       THEN kept
       ELSE IF \E k \in 1..Len(kept) : kept[k].URL = array[i].URL
               THEN deduplicateFrom(array, i + 1, kept)
               ELSE deduplicateFrom(array, i + 1, Append(kept, array[i]))
deduplicateFilters(array) == deduplicateFrom(array, 1, <<>>)

\* updateUniqueFilterID(filters) from index i on:
\* if nextFilterID < filter.ID { nextFilterID = filter.ID + 1 }
RECURSIVE updateUniqueFilterIDFrom(_, _, _)
updateUniqueFilterIDFrom(filters, i, next) ==
    IF i > Len(filters)
       THEN next
       ELSE updateUniqueFilterIDFrom(filters, i + 1,
                IF next < filters[i].ID THEN filters[i].ID + 1 ELSE next)
updateUniqueFilterID(filters, next) == updateUniqueFilterIDFrom(filters, 1, next)

\* The calls of initFiltering, one step each; ipc is the call to make next.
InitLoadFilters ==
    /\ ipc = "loadFilters"
    /\ LET r == loadFilters(Filters, nextFilterID, files) IN
          /\ Filters' = r.array
          /\ nextFilterID' = r.next
    /\ ipc' = "loadWhitelistFilters"
    /\ UNCHANGED <<WhitelistFilters, lastAssigned, dl, fsVars, guardVars, mainVars>>

InitLoadWhitelistFilters ==
    /\ ipc = "loadWhitelistFilters"
    /\ LET r == loadFilters(WhitelistFilters, nextFilterID, files) IN
          /\ WhitelistFilters' = r.array
          /\ nextFilterID' = r.next
    /\ ipc' = "deduplicateFilters"
    /\ UNCHANGED <<Filters, lastAssigned, dl, fsVars, guardVars, mainVars>>

InitDeduplicateFilters ==
    /\ ipc = "deduplicateFilters"
    /\ Filters' = deduplicateFilters(Filters)
    /\ ipc' = "updateUniqueFilterID"
    /\ UNCHANGED <<WhitelistFilters, nextFilterID, lastAssigned, dl, fsVars, guardVars, mainVars>>

InitUpdateUniqueFilterID ==
    /\ ipc = "updateUniqueFilterID"
    /\ nextFilterID' = updateUniqueFilterID(Filters, nextFilterID)
    /\ ipc' = "updateUniqueFilterIDWhitelist"
    /\ UNCHANGED <<Filters, WhitelistFilters, lastAssigned, dl, fsVars, guardVars, mainVars>>

InitUpdateUniqueFilterIDWhitelist ==
    /\ ipc = "updateUniqueFilterIDWhitelist"
    /\ nextFilterID' = updateUniqueFilterID(WhitelistFilters, nextFilterID)
    /\ ipc' = "done"
    /\ UNCHANGED <<Filters, WhitelistFilters, lastAssigned, dl, fsVars, guardVars, mainVars>>

\* assignUniqueFilterID() called once initFiltering is over (by the code that
\* adds a filter): the id it returns is kept in lastAssigned.
AssignUniqueFilterID ==
    /\ ipc = "done"
    /\ lastAssigned = 0
    /\ lastAssigned' = nextFilterID
    /\ nextFilterID' = nextFilterID + 1
    /\ UNCHANGED <<Filters, WhitelistFilters, ipc, dl, fsVars, guardVars, mainVars>>

\* The configured collections: sequences of at most n filters as the
\* configuration file gives them (RulesCount, LastUpdated, checksum and white
\* are not persisted).
ConfiguredFilter ==
    {NewFilter(id, url, enabled, FALSE) :
        id \in 0..MaxPersistedID, url \in {"u1", "u2"}, enabled \in BOOLEAN}
ConfiguredArrays(n) == UNION {[1..k -> ConfiguredFilter] : k \in 0..n}

\* The non-zero persisted ids are pairwise distinct.
PersistedIDsDistinct(black, white) ==
    LET all == black \o white IN
    \A i, j \in 1..Len(all) :
        (i # j /\ all[i].ID # 0) => all[i].ID # all[j].ID

\* The ids of the filters of both collections.
AllFilters == Filters \o WhitelistFilters
AllIDs == {AllFilters[i].ID : i \in 1..Len(AllFilters)}

InitStartup ==
    /\ GuardIdle
    /\ Filters \in ConfiguredArrays(MaxConfigured)
    /\ WhitelistFilters \in ConfiguredArrays(MaxConfiguredWhite)
    /\ PersistedIDsDistinct(Filters, WhitelistFilters)
    /\ nextFilterID \in 1..(MaxPersistedID + 1)
    /\ files \in {[id \in IDs |-> IF id \in withFile THEN File(BodyOld, StartTime - 1)
                                                     ELSE NoFile] :
                     withFile \in {{}, {1}}}
    /\ now = StartTime
    /\ ipc = "loadFilters"
    /\ lastAssigned = 0
    /\ dl = dlIdle
    /\ MainIdle

NextStartup ==
    \/ InitLoadFilters
    \/ InitLoadWhitelistFilters
    \/ InitDeduplicateFilters
    \/ InitUpdateUniqueFilterID
    \/ InitUpdateUniqueFilterIDWhitelist
    \/ AssignUniqueFilterID

SpecStartup == InitStartup /\ [][NextStartup]_vars

----------------------------------------------------------------------------
(* filter.update and filter.updateIntl *)

Min(a, b) == IF a < b THEN a ELSE b

\* The locals of updateIntl at the entry of its read loop (lines 520-524); tmp
\* is what has been written to the temporary file.
readLoopInit ==
    [htmlTest |-> TRUE,
     firstChunk |-> [i \in 1..FirstChunkSize |-> NUL],
     firstChunkLen |-> 0,
     total |-> 0,
     tmp |-> <<>>]

\* The data tests of lines 536-544 on the gathered firstChunk.
NotPrintable(firstChunk) == ~isPrintableText(firstChunk)
IsHTML(firstChunk) ==
    LET s == ToLower(firstChunk) IN
    \/ Contains(s, <<"<", "h", "t", "m", "l">>)
    \/ Contains(s, <<"<", "!", "d", "o", "c", "t", "y", "p", "e">>)

\* One iteration of the loop (lines 526-562): resp.Body.Read returned
\* chunk = buf[:n] and err ("nil", "EOF" or "err"), and tmpfile.Write wrote the
\* first `wrote` bytes of it (fewer than n: err2 != nil).  The locals
\* afterwards, and whether the loop goes on, breaks or updateIntl returns.
readIter(d, chunk, err, wrote) ==
    LET n == Len(chunk)
        num == Min(n, FirstChunkSize - d.firstChunkLen)
        fcLen == d.firstChunkLen + num
        fc == IF d.htmlTest
                 THEN [i \in 1..FirstChunkSize |->
                          IF i > d.firstChunkLen /\ i <= fcLen
                             THEN chunk[i - d.firstChunkLen]
                             ELSE d.firstChunk[i]]
                 ELSE d.firstChunk
        tested == d.htmlTest /\ (fcLen = FirstChunkSize \/ err = "EOF")
        d1 == [d EXCEPT !.total = @ + n,
                        !.firstChunk = IF tested THEN <<>> ELSE fc,
                        !.firstChunkLen = IF d.htmlTest THEN fcLen ELSE @,
                        !.htmlTest = IF tested THEN FALSE ELSE @]
        d2 == [d1 EXCEPT !.tmp = @ \o SubSeq(chunk, 1, wrote)]
    IN  IF tested /\ NotPrintable(fc)
           THEN [d |-> [d1 EXCEPT !.firstChunk = fc, !.htmlTest = TRUE],
                 next |-> "return",
                 error |-> "Data contains non-printable characters"]
        ELSE IF tested /\ IsHTML(fc)
           THEN [d |-> [d1 EXCEPT !.firstChunk = fc, !.htmlTest = TRUE],
                 next |-> "return",
                 error |-> "Data is HTML, not plain text"]
        ELSE IF wrote < n
           THEN [d |-> d2, next |-> "return", error |-> "write"]
        ELSE IF err = "EOF"
           THEN [d |-> d2, next |-> "break", error |-> "nil"]
        ELSE IF err # "nil"
           THEN [d |-> d2, next |-> "return", error |-> "read"]
        ELSE [d |-> d2, next |-> "loop", error |-> "nil"]

\* Lines 566-590, after the loop: the temporary file is parsed, its checksum
\* compared with the filter's, and on a change the filter's fields are set and
\* the temporary file is renamed to filter.Path().  The result b, whether err
\* is non-nil, the filter and the files afterwards.
updateIntlFinish(uf, tmp, renameOk, fs, t) ==
    LET p == parseFilterContents(tmp)
        uf1 == [uf EXCEPT !.Name = IF p.name # <<>> THEN p.name ELSE @,
                          !.RulesCount = p.rulesCount,
                          !.checksum = p.checksum]
    IN  IF uf.checksum = p.checksum
           THEN [b |-> FALSE, err |-> FALSE, uf |-> uf, fs |-> fs]
        ELSE IF ~renameOk
           THEN [b |-> FALSE, err |-> TRUE, uf |-> uf1, fs |-> fs]
        ELSE [b |-> TRUE, err |-> FALSE, uf |-> uf1,
              fs |-> [fs EXCEPT ![uf.ID] = File(tmp, t)]]

\* filter.update() after updateIntl returned r (lines 482-489):
\* LastUpdated = time.Now(); if !b, os.Chtimes(Path(), LastUpdated, LastUpdated),
\* which fails (and is only logged) when there is no file.
updateEpilogue(r, t) ==
    [r EXCEPT !.uf = [@ EXCEPT !.LastUpdated = t],
              !.fs = IF ~r.b /\ @[r.uf.ID].exists
                        THEN [@ EXCEPT ![r.uf.ID] = File(@.data, t)]
                        ELSE @]

\* The read loop run to its end on a response body that arrives whole, read
\* with a full buffer each time.
RECURSIVE readAll(_, _, _)
readAll(d, body, pos) ==
    LET n == Min(BufSize, Len(body) - pos)
        err == IF pos + n = Len(body) THEN "EOF" ELSE "nil"
        it == readIter(d, SubSeq(body, pos + 1, pos + n), err, n)
    IN  IF it.next = "loop" THEN readAll(it.d, body, pos + n) ELSE it

\* What a fetch meets: a failure before or while the body is read (TempFile,
\* the transport, a status other than 200, a read or a write error), or a body
\* that arrives whole, with the outcome of the final os.Rename.
FetchFailure == [kind |-> "fail"]
FetchBody(body, renameOk) == [kind |-> "body", body |-> body, renameOk |-> renameOk]

\* filter.updateIntl() as a whole.
updateIntl(uf, fetch, fs, t) ==
    IF fetch.kind = "fail"
       THEN [b |-> FALSE, err |-> TRUE, uf |-> uf, fs |-> fs]
       ELSE LET it == readAll(readLoopInit, fetch.body, 0) IN
            IF it.next = "return"
               THEN [b |-> FALSE, err |-> TRUE, uf |-> uf, fs |-> fs]
               ELSE updateIntlFinish(uf, it.d.tmp, fetch.renameOk, fs, t)

\* filter.update() as a whole.
update(uf, fetch, fs, t) == updateEpilogue(updateIntl(uf, fetch, fs, t), t)

----------------------------------------------------------------------------
(* filter.update step by step: dl is the download in progress *)

\* The snapshot of a filter that refreshFiltersArray hands to update()
\* (lines 305-309).
UpdateFilter(id, url, name, checksum) ==
    [ID |-> id, URL |-> url, Name |-> name, RulesCount |-> 0,
     LastUpdated |-> ZeroTime, checksum |-> checksum]

\* update() is called on uf; updateIntl starts.
FetchUpdate(uf) ==
    /\ dl.pc = "idle"
    /\ dl' = [pc |-> "TempFile", uf |-> uf]
    /\ UNCHANGED <<fsVars, storeVars, startVars, guardVars, mainVars>>

\* ioutil.TempFile (lines 495-498).
FetchTempFile(ok) ==
    /\ dl.pc = "TempFile"
    /\ dl' = IF ok
                THEN [pc |-> "Get", uf |-> dl.uf, tmpfile |-> TRUE]
                ELSE [pc |-> "return", uf |-> dl.uf, tmpfile |-> FALSE,
                      r |-> [b |-> FALSE, err |-> TRUE, uf |-> dl.uf, fs |-> files]]
    /\ UNCHANGED <<fsVars, storeVars, startVars, guardVars, mainVars>>

\* Context.client.Get and the status test (lines 506-518).  A return removes
\* the temporary file (the deferred function).
FetchGet(getErr, status, body) ==
    /\ dl.pc = "Get"
    /\ dl' = IF getErr \/ status # 200
                THEN [pc |-> "return", uf |-> dl.uf, tmpfile |-> FALSE,
                      r |-> [b |-> FALSE, err |-> TRUE, uf |-> dl.uf, fs |-> files]]
                ELSE [pc |-> "Read", uf |-> dl.uf, tmpfile |-> TRUE,
                      body |-> body, pos |-> 0, d |-> readLoopInit]
    /\ UNCHANGED <<fsVars, storeVars, startVars, guardVars, mainVars>>

\* The Read results the rest of the body allows: n bytes (at most the buffer)
\* with nil, with io.EOF when they are the last, or with a transport error.
ReadAllowed(body, pos, n, err) ==
    /\ n <= Min(BufSize, Len(body) - pos)
    /\ err = "nil" => n > 0
    /\ err = "EOF" => pos + n = Len(body)

\* A read loop that writes each chunk to filter.Path() instead of a temporary
\* file.
FetchReadInPlace(n, err, wrote) ==
    /\ dl.pc = "Read"
    /\ ReadAllowed(dl.body, dl.pos, n, err)
    /\ wrote \in {0, n}
    /\ LET it == readIter(dl.d, SubSeq(dl.body, dl.pos + 1, dl.pos + n), err, wrote) IN
          /\ dl' = IF it.next = "loop"
                      THEN [dl EXCEPT !.d = it.d, !.pos = @ + n]
                   ELSE IF it.next = "break"
                      THEN [dl EXCEPT !.d = it.d, !.pos = @ + n, !.pc = "Parse"]
                   ELSE [pc |-> "return", uf |-> dl.uf, tmpfile |-> FALSE,
                         r |-> [b |-> FALSE, err |-> TRUE, uf |-> dl.uf, fs |-> files]]
          /\ files' = [files EXCEPT ![dl.uf.ID] = File(it.d.tmp, now)]
    /\ UNCHANGED <<now, storeVars, startVars, guardVars, mainVars>>

\* One iteration of the read loop (lines 526-562).
FetchRead(n, err, wrote) ==
    /\ dl.pc = "Read"
    /\ ReadAllowed(dl.body, dl.pos, n, err)
    /\ wrote \in {0, n}
    /\ LET it == readIter(dl.d, SubSeq(dl.body, dl.pos + 1, dl.pos + n), err, wrote) IN
          dl' = IF it.next = "loop"
                   THEN [dl EXCEPT !.d = it.d, !.pos = @ + n]
                ELSE IF it.next = "break"
                   THEN [dl EXCEPT !.d = it.d, !.pos = @ + n, !.pc = "Parse"]
                ELSE [pc |-> "return", uf |-> dl.uf, tmpfile |-> FALSE,
                      r |-> [b |-> FALSE, err |-> TRUE, uf |-> dl.uf, fs |-> files]]
    /\ UNCHANGED <<fsVars, storeVars, startVars, guardVars, mainVars>>

\* Lines 566-590: parse, compare, rename.  Unless the rename succeeded the
\* deferred function removes the temporary file; the rename consumes it.
FetchFinish(renameOk) ==
    /\ dl.pc = "Parse"
    /\ LET r == updateIntlFinish(dl.uf, dl.d.tmp, renameOk, files, now) IN
          /\ files' = r.fs
          /\ dl' = [pc |-> "return", uf |-> r.uf, tmpfile |-> FALSE, r |-> r]
    /\ UNCHANGED <<now, storeVars, startVars, guardVars, mainVars>>

\* update() goes on after updateIntl (lines 482-489) and returns.
FetchReturn ==
    /\ dl.pc = "return"
    /\ LET r == updateEpilogue([dl.r EXCEPT !.fs = files], now) IN
          /\ files' = r.fs
          /\ dl' = dlIdle
    /\ UNCHANGED <<now, storeVars, startVars, guardVars, mainVars>>

\* The bodies an upstream serves.
ServedBodies == {BodyA, BodyB, BodyHTML, BodyBin, BodyShort}

\* The checksum of the file a filter was loaded from, 0 for a filter never
\* loaded.
KnownChecksums ==
    {0, parseFilterContents(BodyOld).checksum, parseFilterContents(BodyA).checksum}

InitFetch ==
    /\ GuardIdle
    /\ Filters = <<>>
    /\ WhitelistFilters = <<>>
    /\ nextFilterID = 1
    /\ ipc = "done"
    /\ lastAssigned = 0
    /\ now = StartTime
    /\ files \in {[id \in IDs |-> IF id \in withFile THEN File(BodyOld, StartTime - 1)
                                                     ELSE NoFile] :
                     withFile \in {{}, {1}}}
    /\ dl = dlIdle
    /\ MainIdle

NextFetch ==
    \/ \E id \in {1, 2}, sum \in KnownChecksums :
          /\ (sum # 0 => files[id].exists)
          /\ FetchUpdate(UpdateFilter(id, "u1", DefaultName, sum))
    \/ \E ok \in BOOLEAN : FetchTempFile(ok)
    \/ \E getErr \in BOOLEAN, status \in {200, 404}, body \in ServedBodies :
          FetchGet(getErr, status, body)
    \/ \E n \in 0..BufSize, err \in {"nil", "EOF", "err"} :
          \E wrote \in {0, n} : FetchRead(n, err, wrote)
    \/ \E renameOk \in BOOLEAN : FetchFinish(renameOk)
    \/ FetchReturn

SpecFetch == InitFetch /\ [][NextFetch]_vars

----------------------------------------------------------------------------
(* config.Lock / config.RLock: the reader/writer lock of the filter store *)

LockFree == [w |-> NoThread, r |-> {}]

\* config.Lock(): waits until nobody holds the lock.
ConfigLock(t) ==
    /\ configLock.w = NoThread
    /\ configLock.r = {}
    /\ configLock' = [configLock EXCEPT !.w = t]

\* config.Unlock()
ConfigUnlock(t) ==
    /\ configLock.w = t
    /\ configLock' = [configLock EXCEPT !.w = NoThread]

\* config.RLock(): waits until no writer holds the lock.
ConfigRLock(t) ==
    /\ configLock.w = NoThread
    /\ configLock' = [configLock EXCEPT !.r = @ \cup {t}]

\* config.RUnlock()
ConfigRUnlock(t) ==
    /\ t \in configLock.r
    /\ configLock' = [configLock EXCEPT !.r = @ \ {t}]

----------------------------------------------------------------------------
(* filterAdd, filterSetProperties, filterExists: called by the threads in
   Admins; adm[a] is the position of a's call.  The arguments of a call are
   drawn when its body runs (they do not depend on the store), and ret shows
   the value returned. *)

Admins == {"admin" \o ToString(i) : i \in 1..NumAdmins}
Refresher == "refresher"

\* The administrator whose calls run beside the refresh cycle; it discards
\* what the calls return.
Admin1 == "admin1"

\* The call of a returns v.
Return(a, v) == ret' = IF a = Admin1 THEN NoRet ELSE v

statusFound == 1
statusEnabledChanged == 2
statusURLChanged == 4
statusURLExists == 8
statusUpdateRequired == 16

\* An id no filter has, for the filter handed to filterAdd (its caller takes
\* it from assignUniqueFilterID).
FreshID == CHOOSE id \in IDs \ {0} : id \notin AllIDs /\ \A j \in 1..(id - 1) : j \in AllIDs

\* filterAdd takes config.Lock() (line 174).
FilterAddLock(a) ==
    /\ adm[a] = "idle"
    /\ ConfigLock(a)
    /\ adm' = [adm EXCEPT ![a] = "filterAdd"]
    /\ ret' = NoRet
    /\ UNCHANGED <<storeVars, rf, fsVars, startVars, dl, guardVars>>

\* A filterAdd that looks for the URL only in the collection it adds to.
FilterAddOwnCollection(a, f) ==
    /\ adm[a] = "filterAdd"
    /\ LET own == IF f.white THEN WhitelistFilters ELSE Filters
           exists == \E i \in 1..Len(own) : own[i].URL = f.URL
       IN  /\ Filters' = IF ~exists /\ ~f.white THEN Append(Filters, f) ELSE Filters
           /\ WhitelistFilters' =
                 IF ~exists /\ f.white THEN Append(WhitelistFilters, f)
                                       ELSE WhitelistFilters
           /\ Return(a, [op |-> "filterAdd", value |-> ~exists])
    /\ ConfigUnlock(a)
    /\ adm' = [adm EXCEPT ![a] = "idle"]
    /\ UNCHANGED <<nextFilterID, rf, fsVars, startVars, dl, guardVars>>

\* filterAdd(f), lines 177-187, and the deferred config.Unlock().
FilterAdd(a, f) ==
    /\ adm[a] = "filterAdd"
    /\ IF filterExistsNoLock(f.URL)
          THEN /\ UNCHANGED <<Filters, WhitelistFilters>>
               /\ Return(a, [op |-> "filterAdd", value |-> FALSE])
          ELSE /\ IF f.white
                     THEN /\ WhitelistFilters' = Append(WhitelistFilters, f)
                          /\ UNCHANGED Filters
                     ELSE /\ Filters' = Append(Filters, f)
                          /\ UNCHANGED WhitelistFilters
               /\ Return(a, [op |-> "filterAdd", value |-> TRUE])
    /\ ConfigUnlock(a)
    /\ adm' = [adm EXCEPT ![a] = "idle"]
    /\ UNCHANGED <<nextFilterID, rf, fsVars, startVars, dl, guardVars>>

\* filterSetProperties takes config.Lock() (line 94).
FilterSetPropertiesLock(a) ==
    /\ adm[a] = "idle"
    /\ ConfigLock(a)
    /\ adm' = [adm EXCEPT ![a] = "filterSetProperties"]
    /\ ret' = NoRet
    /\ UNCHANGED <<storeVars, rf, fsVars, startVars, dl, guardVars>>

\* Bitwise or of a status flag into r.
Or(r, flag) == IF (r \div flag) % 2 = 1 THEN r ELSE r + flag

\* A filterSetProperties that assigns the new URL and resets the filter before
\* it looks whether the new URL is in use.
setPropertiesChecksLate(f, newf, exists, fs) ==
    LET f1 == [f EXCEPT !.Name = newf.Name]
        urlChanged == f.URL # newf.URL
        r1 == IF urlChanged THEN Or(Or(0, statusURLChanged), statusUpdateRequired) ELSE 0
        f2 == IF urlChanged
                 THEN [unload([f1 EXCEPT !.URL = newf.URL])
                          EXCEPT !.LastUpdated = ZeroTime, !.checksum = 0, !.RulesCount = 0]
                 ELSE f1
        enabledChanged == f2.Enabled # newf.Enabled
        r2 == IF enabledChanged THEN Or(r1, statusEnabledChanged) ELSE r1
        f3 == [f2 EXCEPT !.Enabled = newf.Enabled]
        loads == enabledChanged /\ newf.Enabled /\ ~urlChanged
        f4 == IF ~enabledChanged THEN f2
              ELSE IF ~newf.Enabled THEN unload(f3)
              ELSE IF urlChanged THEN f3
              ELSE IF loadErr(f3, fs)
                 THEN [f3 EXCEPT !.LastUpdated = ZeroTime, !.checksum = 0, !.RulesCount = 0]
                 ELSE load(f3, fs)
        r3 == IF loads /\ loadErr(f3, fs) THEN Or(r2, statusUpdateRequired) ELSE r2
    IN  IF urlChanged /\ exists
           THEN [f |-> f2, r |-> statusURLExists]
           ELSE [f |-> f4, r |-> Or(r3, statusFound)]

\* The body of the loop of filterSetProperties for the filter f it found
\* (lines 108-144): the filter afterwards and the value returned.  exists is
\* filterExistsNoLock(newf.URL).
setProperties(f, newf, exists, fs) ==
    LET f1 == [f EXCEPT !.Name = newf.Name]
        urlChanged == f.URL # newf.URL
        r1 == IF urlChanged THEN Or(Or(0, statusURLChanged), statusUpdateRequired) ELSE 0
        f2 == IF urlChanged
                 THEN [unload([f1 EXCEPT !.URL = newf.URL])
                          EXCEPT !.LastUpdated = ZeroTime, !.checksum = 0, !.RulesCount = 0]
                 ELSE f1
        enabledChanged == f2.Enabled # newf.Enabled
        r2 == IF enabledChanged THEN Or(r1, statusEnabledChanged) ELSE r1
        f3 == [f2 EXCEPT !.Enabled = newf.Enabled]
        loads == enabledChanged /\ newf.Enabled /\ ~urlChanged
        f4 == IF ~enabledChanged THEN f2
              ELSE IF ~newf.Enabled THEN unload(f3)
              ELSE IF urlChanged THEN f3
              ELSE IF loadErr(f3, fs)
                 THEN [f3 EXCEPT !.LastUpdated = ZeroTime, !.checksum = 0, !.RulesCount = 0]
                 ELSE load(f3, fs)
        r3 == IF loads /\ loadErr(f3, fs) THEN Or(r2, statusUpdateRequired) ELSE r2
    IN  IF urlChanged /\ exists
           THEN [f |-> f1, r |-> statusURLExists]
           ELSE [f |-> f4, r |-> Or(r3, statusFound)]

\* The index of the first filter of the array with this URL, 0 if there is none.
FirstWithURL(array, url) ==
    IF \E i \in 1..Len(array) : array[i].URL = url
       THEN CHOOSE i \in 1..Len(array) :
                /\ array[i].URL = url
                /\ \A j \in 1..(i - 1) : array[j].URL # url
       ELSE 0

\* filterSetProperties(url, newf, whitelist), lines 97-146, and the deferred
\* config.Unlock().
FilterSetProperties(a, url, newf, whitelist) ==
    /\ adm[a] = "filterSetProperties"
    /\ LET filters == IF whitelist THEN WhitelistFilters ELSE Filters
           i == FirstWithURL(filters, url)
           call == [op |-> "filterSetProperties", value |-> 0]
       IN  IF i = 0
              THEN /\ UNCHANGED <<Filters, WhitelistFilters>>
                   /\ Return(a, call)
              ELSE LET res == setProperties(filters[i], newf,
                                            filterExistsNoLock(newf.URL), files)
                   IN  /\ IF whitelist
                             THEN /\ WhitelistFilters' = [WhitelistFilters EXCEPT ![i] = res.f]
                                  /\ UNCHANGED Filters
                             ELSE /\ Filters' = [Filters EXCEPT ![i] = res.f]
                                  /\ UNCHANGED WhitelistFilters
                       /\ Return(a, [call EXCEPT !.value = res.r])
    /\ ConfigUnlock(a)
    /\ adm' = [adm EXCEPT ![a] = "idle"]
    /\ UNCHANGED <<nextFilterID, rf, fsVars, startVars, dl, guardVars>>

\* filterExists takes config.RLock() (line 151).
FilterExistsRLock(a) ==
    /\ adm[a] = "idle"
    /\ ConfigRLock(a)
    /\ adm' = [adm EXCEPT ![a] = "filterExists"]
    /\ ret' = NoRet
    /\ UNCHANGED <<storeVars, rf, fsVars, startVars, dl, guardVars>>

\* filterExists(url), lines 152-154.
FilterExists(a, url) ==
    /\ adm[a] = "filterExists"
    /\ Return(a, [op |-> "filterExists", value |-> filterExistsNoLock(url)])
    /\ ConfigRUnlock(a)
    /\ adm' = [adm EXCEPT ![a] = "idle"]
    /\ UNCHANGED <<storeVars, rf, fsVars, startVars, dl, guardVars>>

----------------------------------------------------------------------------
(* refreshFiltersIfNecessary and refreshFiltersArray, run by the thread that
   holds refreshLock; rf holds its position and its locals *)

RefreshIdle == [pc |-> "idle"]

\* The collection refreshFiltersArray works on.
Collection(white) == IF white THEN WhitelistFilters ELSE Filters

\* Lines 291-312: the filters of the collection that are enabled and, unless
\* forced, expired at time t, as the copies handed to update().
RECURSIVE snapshotFrom(_, _, _, _, _)
snapshotFrom(filters, i, force, t, acc) ==
    IF i > Len(filters)
       THEN acc
       ELSE LET f == filters[i]
                expireTime == f.LastUpdated + updateIntervalHours
            IN  IF ~f.Enabled \/ (~force /\ expireTime > t)
                   THEN snapshotFrom(filters, i + 1, force, t, acc)
                   ELSE snapshotFrom(filters, i + 1, force, t,
                            Append(acc, UpdateFilter(f.ID, f.URL, f.Name, f.checksum)))
snapshot(filters, force, t) == snapshotFrom(filters, 1, force, t, <<>>)

\* A commit that leaves out the filters whose fetch was not reported updated.
commitOneUpdatedOnly(filters, uf, updated) ==
    [k \in 1..Len(filters) |->
        IF filters[k].ID # uf.ID \/ filters[k].URL # uf.URL \/ ~updated
           THEN filters[k]
        ELSE [filters[k] EXCEPT !.LastUpdated = uf.LastUpdated,
                                !.Name = uf.Name,
                                !.RulesCount = uf.RulesCount,
                                !.checksum = uf.checksum]]

\* Lines 340-356: the result uf of a fetch merged into the collection; every
\* filter with uf's ID and URL gets its LastUpdated and, if updated, its Name,
\* RulesCount and checksum.
commitOne(filters, uf, updated) ==
    [k \in 1..Len(filters) |->
        IF filters[k].ID # uf.ID \/ filters[k].URL # uf.URL
           THEN filters[k]
        ELSE IF ~updated
           THEN [filters[k] EXCEPT !.LastUpdated = uf.LastUpdated]
        ELSE [filters[k] EXCEPT !.LastUpdated = uf.LastUpdated,
                                !.Name = uf.Name,
                                !.RulesCount = uf.RulesCount,
                                !.checksum = uf.checksum]]

\* The number of filters the commit of uf counts in updateCount.
commitCount(filters, uf, updated) ==
    IF updated
       THEN Cardinality({k \in 1..Len(filters) :
                            filters[k].ID = uf.ID /\ filters[k].URL = uf.URL})
       ELSE 0

\* refreshFiltersIfNecessary(flags) is entered (lines 391-399); it goes to the
\* first refreshFiltersArray its flags ask for, which reads the clock (line 291).
ArrayEntry(c, white) ==
    [c EXCEPT !.pc = "RLock", !.white = white, !.now = now,
              !.ufs = <<>>, !.flags = <<>>, !.errs = <<>>, !.i = 1, !.nfail = 0,
              !.count = 0]

CycleStart(force, block, allow) ==
    /\ rf.pc = "idle"
    /\ LET c == [pc |-> "finish", force |-> force, block |-> block, allow |-> allow,
                 white |-> FALSE, now |-> now,
                 ufs |-> <<>>, flags |-> <<>>, errs |-> <<>>, i |-> 1, nfail |-> 0,
                 count |-> 0, updateCount |-> 0,
                 netError |-> FALSE, netErrorW |-> FALSE]
       IN  rf' = IF block THEN ArrayEntry(c, FALSE)
                 ELSE IF allow THEN ArrayEntry(c, TRUE)
                 ELSE c
    /\ ret' = NoRet
    /\ UNCHANGED <<storeVars, configLock, adm, fsVars, startVars, dl, guardVars>>

\* refreshFiltersArray returned (count, netErr) to refreshFiltersIfNecessary
\* (lines 401-411), which goes on to the allow-lists or to line 412.  The
\* filters and flags it returns as well only name the backup files removed at
\* lines 420-427; the locals of the finished call are gone.
ArrayReturn(c, count, netErr) ==
    LET done == [c EXCEPT !.ufs = <<>>, !.flags = <<>>, !.errs = <<>>, !.i = 1,
                          !.nfail = 0, !.count = 0]
    IN  IF ~c.white
           THEN LET c1 == [done EXCEPT !.updateCount = count, !.netError = netErr]
                IN  IF c.allow THEN ArrayEntry(c1, TRUE) ELSE [c1 EXCEPT !.pc = "finish"]
           ELSE [done EXCEPT !.updateCount = @ + count, !.netErrorW = netErr,
                             !.pc = "finish"]

\* config.RLock() at line 292.
ArrayRLock ==
    /\ rf.pc = "RLock"
    /\ ConfigRLock(Refresher)
    /\ rf' = [rf EXCEPT !.pc = "snapshot"]
    /\ ret' = NoRet
    /\ UNCHANGED <<storeVars, adm, fsVars, startVars, dl, guardVars>>

\* A snapshot that keeps the read lock.
ArraySnapshotKeepsRLock ==
    /\ rf.pc = "snapshot"
    /\ LET ufs == snapshot(Collection(rf.white), rf.force, rf.now) IN
          rf' = IF Len(ufs) = 0
                   THEN ArrayReturn(rf, 0, FALSE)
                   ELSE [rf EXCEPT !.pc = "fetch", !.ufs = ufs, !.i = 1]
    /\ ret' = NoRet
    /\ UNCHANGED <<storeVars, configLock, adm, fsVars, startVars, dl, guardVars>>

\* Lines 293-316: the snapshot under the read lock, config.RUnlock(), and the
\* return when nothing is to be updated.
ArraySnapshot ==
    /\ rf.pc = "snapshot"
    /\ ConfigRUnlock(Refresher)
    /\ LET ufs == snapshot(Collection(rf.white), rf.force, rf.now) IN
          rf' = IF Len(ufs) = 0
                   THEN ArrayReturn(rf, 0, FALSE)
                   ELSE [rf EXCEPT !.pc = "fetch", !.ufs = ufs, !.i = 1]
    /\ ret' = NoRet
    /\ UNCHANGED <<storeVars, adm, fsVars, startVars, dl, guardVars>>

\* Lines 319-332: uf.update() for the next filter of the snapshot; after the
\* last one, the return when every fetch failed.
ArrayFetch(fetch) ==
    /\ rf.pc = "fetch"
    /\ LET r == update(rf.ufs[rf.i], fetch, files, now)
           c == [rf EXCEPT !.ufs[rf.i] = r.uf,
                           !.flags = Append(@, r.b),
                           !.errs = Append(@, r.err),
                           !.nfail = IF r.err THEN @ + 1 ELSE @,
                           !.i = @ + 1]
       IN  /\ files' = r.fs
           /\ rf' = IF c.i <= Len(c.ufs) THEN c
                    ELSE IF c.nfail = Len(c.ufs)
                       THEN ArrayReturn(c, 0, TRUE)
                    ELSE [c EXCEPT !.pc = "Lock", !.i = 1]
           /\ ret' = NoRet
    /\ UNCHANGED <<now, storeVars, configLock, adm, startVars, dl, guardVars>>

\* config.Lock() at line 339.
ArrayCommitLock ==
    /\ rf.pc = "Lock"
    /\ ConfigLock(Refresher)
    /\ rf' = [rf EXCEPT !.pc = "commit"]
    /\ ret' = NoRet
    /\ UNCHANGED <<storeVars, adm, fsVars, startVars, dl, guardVars>>

\* Lines 340-357 for the next filter of the snapshot, config.Unlock(), and after
\* the last one the return at line 360.
ArrayCommit ==
    /\ rf.pc = "commit"
    /\ ConfigUnlock(Refresher)
    /\ LET uf == rf.ufs[rf.i]
           updated == rf.flags[rf.i]
           filters == Collection(rf.white)
           c == [rf EXCEPT !.count = @ + commitCount(filters, uf, updated),
                           !.i = @ + 1]
       IN  /\ IF rf.white
                 THEN /\ WhitelistFilters' = commitOne(filters, uf, updated)
                      /\ UNCHANGED Filters
                 ELSE /\ Filters' = commitOne(filters, uf, updated)
                      /\ UNCHANGED WhitelistFilters
           /\ rf' = IF c.i <= Len(c.ufs)
                       THEN [c EXCEPT !.pc = "Lock"]
                       ELSE ArrayReturn(c, c.count, FALSE)
           /\ ret' = NoRet
    /\ UNCHANGED <<nextFilterID, adm, fsVars, startVars, dl, guardVars>>

\* What refreshFiltersIfNecessary returns, whether it called enableFilters and
\* what that handed to dnsFilter.SetFilters.
CycleRet(updateCount, isNetErr, enabled) ==
    [op |-> "refreshFiltersIfNecessary", updateCount |-> updateCount,
     isNetworkErr |-> isNetErr, enableFilters |-> enabled, SetFilters |-> NoDescriptors]

\* A refreshFiltersIfNecessary that reports a network error when one of the two
\* collections had one.
CycleFinishEitherError ==
    /\ rf.pc = "finish"
    /\ IF rf.netError \/ rf.netErrorW
          THEN /\ rf' = RefreshIdle
               /\ ret' = CycleRet(0, TRUE, FALSE)
          ELSE IF rf.updateCount # 0
             THEN /\ rf' = [rf EXCEPT !.pc = "enableFilters"]
                  /\ ret' = NoRet
             ELSE /\ rf' = RefreshIdle
                  /\ ret' = CycleRet(rf.updateCount, FALSE, FALSE)
    /\ UNCHANGED <<storeVars, configLock, adm, fsVars, startVars, dl, guardVars>>

\* A refreshFiltersIfNecessary that calls enableFilters whatever updateCount is.
CycleFinishAlwaysEnables ==
    /\ rf.pc = "finish"
    /\ IF rf.netError /\ rf.netErrorW
          THEN /\ rf' = RefreshIdle
               /\ ret' = CycleRet(0, TRUE, FALSE)
          ELSE /\ rf' = [rf EXCEPT !.pc = "enableFilters"]
               /\ ret' = NoRet
    /\ UNCHANGED <<storeVars, configLock, adm, fsVars, startVars, dl, guardVars>>

\* Lines 412-431 up to the call of enableFilters: the return with a network
\* error, the return when nothing was updated.
CycleFinish ==
    /\ rf.pc = "finish"
    /\ IF rf.netError /\ rf.netErrorW
          THEN /\ rf' = RefreshIdle
               /\ ret' = CycleRet(0, TRUE, FALSE)
          ELSE IF rf.updateCount # 0
             THEN /\ rf' = [rf EXCEPT !.pc = "enableFilters"]
                  /\ ret' = NoRet
             ELSE /\ rf' = RefreshIdle
                  /\ ret' = CycleRet(rf.updateCount, FALSE, FALSE)
    /\ UNCHANGED <<storeVars, configLock, adm, fsVars, startVars, dl, guardVars>>

\* enableFilters(async), lines 650-686: the ids of the enabled filters of both
\* collections, read without config's lock, are handed to dnsFilter.SetFilters.
EnabledIDs(filters) ==
    LET idx == {i \in 1..Len(filters) : filters[i].Enabled} IN
    {filters[i].ID : i \in idx}
enableFilters ==
    IF FilteringEnabled
       THEN [filters |-> {0} \cup EnabledIDs(Filters), whiteFilters |-> EnabledIDs(WhitelistFilters)]
       ELSE [filters |-> {}, whiteFilters |-> {}]

\* Lines 417-430: enableFilters(false) and the return.
CycleEnableFilters ==
    /\ rf.pc = "enableFilters"
    /\ rf' = RefreshIdle
    /\ ret' = [CycleRet(rf.updateCount, FALSE, TRUE) EXCEPT !.SetFilters = enableFilters]
    /\ UNCHANGED <<storeVars, configLock, adm, fsVars, startVars, dl, guardVars>>

----------------------------------------------------------------------------
(* The store with its administrators, and the store with one administrator
   and one refresh cycle at a time *)

\* The bodies the upstreams serve to a refresh cycle.
RefreshBodies == {BodyA, BodyHTML}
Fetches ==
    {FetchFailure} \cup {FetchBody(b, TRUE) : b \in RefreshBodies}

\* After initFiltering: one enabled block-list filter, loaded from its file.
Init ==
    /\ GuardIdle
    /\ files = [id \in IDs |-> IF id = 1 THEN File(BodyOld, StartTime - 1) ELSE NoFile]
    /\ Filters = <<load(NewFilter(1, "u1", TRUE, FALSE), files)>>
    /\ WhitelistFilters = <<>>
    /\ nextFilterID = 2
    /\ now = StartTime
    /\ ipc = "done"
    /\ lastAssigned = 0
    /\ dl = dlIdle
    /\ configLock = LockFree
    /\ adm = [a \in Admins |-> "idle"]
    /\ rf = RefreshIdle
    /\ ret = NoRet

\* The calls that change the store.
AdminNext(a) ==
    \/ FilterAddLock(a)
    \/ \E url \in URLs, enabled \in BOOLEAN, white \in BOOLEAN :
          FilterAdd(a, NewFilter(FreshID, url, enabled, white))
    \/ FilterSetPropertiesLock(a)
    \/ \E url \in URLs, newURL \in URLs, newEnabled \in BOOLEAN, whitelist \in BOOLEAN :
          FilterSetProperties(a, url, [Name |-> DefaultName, URL |-> newURL,
                                       Enabled |-> newEnabled], whitelist)

NextStore ==
    \E a \in Admins :
       \/ AdminNext(a)
       \/ FilterExistsRLock(a)
       \/ \E url \in URLs : FilterExists(a, url)

SpecStore == Init /\ [][NextStore]_vars

\* The flags refreshFiltersIfNecessary is called with: by the scheduler, and
\* by a request to refresh everything, the block-lists or the allow-lists.
RefreshFlags ==
    {[force |-> FALSE, block |-> TRUE, allow |-> TRUE],
     [force |-> TRUE, block |-> TRUE, allow |-> TRUE],
     [force |-> TRUE, block |-> TRUE, allow |-> FALSE],
     [force |-> TRUE, block |-> FALSE, allow |-> TRUE]}

RefreshNext ==
    \/ \E flags \in RefreshFlags : CycleStart(flags.force, flags.block, flags.allow)
    \/ ArrayRLock
    \/ ArraySnapshot
    \/ \E fetch \in Fetches : ArrayFetch(fetch)
    \/ ArrayCommitLock
    \/ ArrayCommit
    \/ CycleFinish
    \/ CycleEnableFilters

Next ==
    \/ AdminNext(Admin1)
    \/ RefreshNext

Spec == Init /\ [][Next]_vars

----------------------------------------------------------------------------
(* Refresh cycles one after the other, while the clock advances and every
   upstream goes on serving the same content *)

\* time.Now() has advanced.
Tick ==
    /\ now < StartTime + MaxTicks
    /\ now' = now + 1
    /\ ret' = NoRet
    /\ UNCHANGED <<files, storeVars, configLock, adm, rf, startVars, dl, guardVars>>

\* What the upstream of each URL serves.
Upstream(url) == IF url = "u1" THEN BodyA ELSE BodyB

\* After initFiltering: the filter of Init and possibly a second enabled
\* filter, never fetched, in the block-lists or in the allow-lists.
InitRepeat ==
    /\ GuardIdle
    /\ files = [id \in IDs |-> IF id = 1 THEN File(BodyOld, StartTime - 1) ELSE NoFile]
    /\ \E second \in {"none", "block", "allow"} :
          /\ Filters = <<load(NewFilter(1, "u1", TRUE, FALSE), files)>>
                          \o (IF second = "block"
                                 THEN <<NewFilter(2, "u2", TRUE, FALSE)>> ELSE <<>>)
          /\ WhitelistFilters = IF second = "allow"
                                   THEN <<NewFilter(2, "u2", TRUE, TRUE)>> ELSE <<>>
          /\ nextFilterID = IF second = "none" THEN 2 ELSE 3
    /\ now = StartTime
    /\ ipc = "done"
    /\ lastAssigned = 0
    /\ dl = dlIdle
    /\ configLock = LockFree
    /\ adm = [a \in Admins |-> "idle"]
    /\ rf = RefreshIdle
    /\ ret = NoRet

NextRepeat ==
    \/ \E flags \in RefreshFlags : CycleStart(flags.force, flags.block, flags.allow)
    \/ ArrayRLock
    \/ ArraySnapshot
    \/ rf.pc = "fetch" /\ ArrayFetch(FetchBody(Upstream(rf.ufs[rf.i].URL), TRUE))
    \/ ArrayCommitLock
    \/ ArrayCommit
    \/ CycleFinish
    \/ CycleEnableFilters
    \/ Tick

SpecRepeat == InitRepeat /\ [][NextRepeat]_vars

----------------------------------------------------------------------------
(* filter.load() applied to the files a data directory can hold *)

\* The bytes of the files: a rule byte, the comment mark, the line end and a
\* space.
ContentBytes == {"a", "!", "\n", " "}
Contents == UNION {[1..n -> ContentBytes] : n \in 0..MaxContentLen}

\* filter.load() of the filter with this index in config.Filters, not loaded
\* before.
FilterLoad(i) ==
    /\ i \in 1..Len(Filters)
    /\ Filters[i].LastUpdated = ZeroTime
    /\ ~loadErr(Filters[i], files)
    /\ Filters' = [Filters EXCEPT ![i] = load(@, files)]
    /\ UNCHANGED <<WhitelistFilters, nextFilterID, fsVars, startVars, dl, guardVars,
                   mainVars>>

\* One enabled filter, not loaded yet, with any content in its file.
InitLoad ==
    /\ GuardIdle
    /\ \E data \in Contents :
          files = [id \in IDs |-> IF id = 1 THEN File(data, StartTime - 1) ELSE NoFile]
    /\ Filters = <<NewFilter(1, "u1", TRUE, FALSE)>>
    /\ WhitelistFilters = <<>>
    /\ nextFilterID = 2
    /\ now = StartTime
    /\ ipc = "done"
    /\ lastAssigned = 0
    /\ dl = dlIdle
    /\ MainIdle

NextLoad == \E i \in 1..Len(Filters) : FilterLoad(i)

SpecLoad == InitLoad /\ [][NextLoad]_vars

----------------------------------------------------------------------------
(* Specifications of the guard *)

\* The store, the files and the start-up at rest, for the specifications of
\* the guard.
StoreIdle ==
    /\ Filters = <<>>
    /\ WhitelistFilters = <<>>
    /\ nextFilterID = 1
    /\ files = [id \in IDs |-> NoFile]
    /\ now = StartTime
    /\ ipc = "done"
    /\ lastAssigned = 0
    /\ dl = dlIdle
    /\ MainIdle

InitGuard == GuardInit /\ StoreIdle

SchedNext ==
    \/ SchedTick
    \/ SchedLock
    \/ \E netErr \in BOOLEAN : SchedBody(netErr)
    \/ SchedUnlock
    \/ SchedReset
    \/ SchedSleep

CallerNext(t, imps) ==
    \/ \E imp \in imps : RefreshFiltersCall(t, imp)
    \/ RefreshFiltersLock(t)
    \/ RefreshFiltersBody(t)
    \/ RefreshFiltersUnlock(t)
    \/ RefreshFiltersReset(t)
    \/ RefreshFiltersReturned(t)

NextGuard ==
    /\ \/ SchedNext
       \/ \E t \in Callers : CallerNext(t, BOOLEAN)
    /\ UNCHANGED <<storeVars, fsVars, startVars, dl, mainVars>>

SpecGuard == InitGuard /\ [][NextGuard]_vars

\* SpecGuard under fair scheduling: a thread that can take a step of its code
\* takes one (every cycle body returns, every Unlock and every return is
\* reached), and a thread that waits in refreshLock.Lock() gets the mutex if
\* it is free again and again (sync.Mutex hands the mutex to a waiter that
\* has been starved).  Nobody is obliged to call refreshFilters, and the
\* scheduler is not obliged to wake up.
GuardOnly == UNCHANGED <<storeVars, fsVars, startVars, dl, mainVars>>
FairGuard ==
    /\ WF_vars(GuardOnly /\ \E netErr \in BOOLEAN : SchedBody(netErr))
    /\ WF_vars(GuardOnly /\ SchedUnlock)
    /\ WF_vars(GuardOnly /\ SchedReset)
    /\ SF_vars(GuardOnly /\ SchedLock)
    /\ \A t \in Callers :
          /\ SF_vars(GuardOnly /\ RefreshFiltersLock(t))
          /\ WF_vars(GuardOnly /\ RefreshFiltersBody(t))
          /\ WF_vars(GuardOnly /\ RefreshFiltersUnlock(t))
          /\ WF_vars(GuardOnly /\ RefreshFiltersReset(t))

SpecGuardFair == InitGuard /\ [][NextGuard]_vars /\ FairGuard

\* Only non-important requesters: plain refreshFilters calls and the scheduler.
NextPlain ==
    /\ \/ SchedNext
       \/ \E t \in Callers : CallerNext(t, {FALSE})
    /\ UNCHANGED <<storeVars, fsVars, startVars, dl, mainVars>>

SpecPlain == InitGuard /\ [][NextPlain]_vars

----------------------------------------------------------------------------
(* Properties of the single-flight guard *)

\* C1: in every reachable state at most one thread (the scheduler, a plain
\* caller or an important caller) is executing the body of a refresh cycle.
C1_AtMostOneBody == Cardinality({t \in Threads : InBody(t)}) <= 1

\* One thread runs the body while the two other kinds wait on refreshLock, one
\* of them an important caller.
C1_Witness ==
    \E t \in Callers, u \in Callers :
        /\ t # u
        /\ InBody(t)
        /\ pc[u] = "lock" /\ important[u]
        /\ pc[Sched] = "lock"

\* The step with which caller t enters refreshFilters (its compare-and-swap and
\* the test that follows it).
CallStep(t) == pc[t] = "idle" /\ pc'[t] # "idle"

\* C2 (as claimed): a refreshFilters call with important = false that is made
\* while a cycle body is executing, whoever started the cycle, returns the
\* "already running" error at once and never reaches refreshLock.
C2_PlainCallFailsWhileBodyRuns ==
    [][\A t \in Callers :
          (CallStep(t) /\ ~important'[t] /\ BodyRunning)
              => (pc'[t] = "ret" /\ result'[t] = ErrAlreadyRunning)]_vars

\* The step with which the scheduler evaluates the condition of its tick.
TickStep == pc[Sched] = "loop" /\ pc'[Sched] # "loop"

\* C3 (as claimed): a scheduler tick that occurs while a cycle body is executing
\* skips: it goes to sleep without waiting on refreshLock.
C3_TickSkipsWhileBodyRuns ==
    [][(TickStep /\ BodyRunning) => pc'[Sched] = "sleep"]_vars

\* C4: with only non-important requesters, at most one thread holds the guard;
\* a request whose compare-and-swap happens while another holds the guard gets
\* "already running" and executes nothing, and one that finds the guard free
\* goes on to its cycle.
GuardHolders == {t \in Threads : HoldsGuard(t)}

C4_SingleFlight ==
    [][/\ Cardinality(GuardHolders') <= 1
       /\ \A t \in Callers :
             CallStep(t) =>
                IF GuardHolders # {}
                   THEN pc'[t] = "ret" /\ result'[t] = ErrAlreadyRunning
                   ELSE pc'[t] = "lock" /\ GuardHolders' = {t}]_vars

\* One plain request has been turned away while the other runs its cycle.
C4_Witness ==
    \E t \in Callers, u \in Callers :
        /\ t # u
        /\ InBody(t) /\ ~important[t]
        /\ pc[u] = "ret" /\ result[u] = ErrAlreadyRunning /\ ~important[u]

----------------------------------------------------------------------------
(* Properties of the start-up *)

\* C7 (as claimed): after initFiltering, whatever the persisted collections
\* (their non-zero ids pairwise distinct) and the counter's starting value,
\* every filter has a non-zero id and the ids are pairwise distinct across both
\* collections.
C7_IDsUniqueAfterInit ==
    ipc = "done" =>
        /\ \A i \in 1..Len(AllFilters) : AllFilters[i].ID # 0
        /\ \A i, j \in 1..Len(AllFilters) : i # j => AllFilters[i].ID # AllFilters[j].ID

\* C8 (as claimed): after initFiltering nextFilterID is strictly greater than
\* every id present in either collection, so a later assignUniqueFilterID never
\* returns an id in use.
C8_CounterPastEveryID ==
    ipc = "done" =>
        /\ \A id \in AllIDs : nextFilterID > id
        /\ lastAssigned # 0 => lastAssigned \notin AllIDs

----------------------------------------------------------------------------
(* Properties of the content fetch *)

\* The plain-text contents an upstream serves, whole.
CompleteTextBodies == {BodyA, BodyB, BodyShort}

\* C10: at every moment (in the middle of a download, after a fetch that failed
\* at any step, after an "unchanged" result) the file at a filter's content
\* path is absent, or holds the complete previous content, or holds the
\* complete bytes of a plain-text body that was streamed to its end; never a
\* part of a body, never a body that the data tests reject.
C10_NoPartialContent ==
    \A id \in IDs :
        files[id].exists => files[id].data \in ({BodyOld} \cup CompleteTextBodies)

\* A download is in the middle of a body, part of it is in the temporary file,
\* and the previous content is still at the content path.
C10_Witness ==
    /\ dl.pc = "Read"
    /\ dl.pos > 0 /\ dl.pos < Len(dl.body)
    /\ dl.d.tmp # <<>>
    /\ files[dl.uf.ID].exists /\ files[dl.uf.ID].data = BodyOld

----------------------------------------------------------------------------
(* C5 *)

\* C5: filterAdd(f) returns false and leaves both collections as they are when
\* f.URL is in the block-lists or in the allow-lists; otherwise it returns true
\* and appends f to the collection f.white selects, leaving the other one as it
\* is.
C5_FilterAddContract ==
    [][\A a \in Admins \ {Admin1}, url \in URLs, enabled \in BOOLEAN, white \in BOOLEAN :
          LET f == NewFilter(FreshID, url, enabled, white) IN
          FilterAdd(a, f) =>
             IF \E i \in 1..Len(AllFilters) : AllFilters[i].URL = f.URL
                THEN /\ ret' = [op |-> "filterAdd", value |-> FALSE]
                     /\ Filters' = Filters
                     /\ WhitelistFilters' = WhitelistFilters
                ELSE /\ ret' = [op |-> "filterAdd", value |-> TRUE]
                     /\ IF f.white
                           THEN /\ WhitelistFilters' = Append(WhitelistFilters, f)
                                /\ Filters' = Filters
                           ELSE /\ Filters' = Append(Filters, f)
                                /\ WhitelistFilters' = WhitelistFilters]_vars

\* A filterAdd has just returned false while the allow-lists hold a filter that
\* an earlier filterAdd appended.
C5_Witness ==
    /\ ret = [op |-> "filterAdd", value |-> FALSE]
    /\ Len(WhitelistFilters) = 1
    /\ Len(Filters) = 1

----------------------------------------------------------------------------
(* C6 *)

\* C6: no two filters, of the same collection or of the two collections, have
\* the same URL, whatever filterAdd, filterSetProperties and the commits of the
\* refresh cycles did to a store that started that way.
C6_URLsUnique ==
    \A i, j \in 1..Len(AllFilters) : i # j => AllFilters[i].URL # AllFilters[j].URL

\* The first filter got another URL from filterSetProperties, a filter was
\* added to the allow-lists, and a refresh cycle committed to both.
C6_Witness ==
    /\ Len(Filters) = 1 /\ Len(WhitelistFilters) = 1
    /\ Filters[1].URL = "u2" /\ WhitelistFilters[1].URL = "u1"
    /\ Filters[1].LastUpdated = StartTime
    /\ WhitelistFilters[1].LastUpdated = StartTime

----------------------------------------------------------------------------
(* C9 *)

\* C9: the commit of a refresh leaves the store's entry of a filter whose fetch
\* failed as it was, also when other filters of the snapshot were fetched.
C9_FailedFetchLeavesEntry ==
    [][(rf.pc = "commit" /\ rf.errs[rf.i])
          => (Filters' = Filters /\ WhitelistFilters' = WhitelistFilters)]_vars

----------------------------------------------------------------------------
(* C11 *)

\* C11: every commit of a refresh sets LastUpdated of the filter it refreshed
\* to the time of that pass, never back; and when an earlier pass has already
\* refreshed the filter from the same upstream content, the pass reports no
\* change for it and its commit leaves checksum, RulesCount and Name as they
\* are.
C11_SecondPassIdempotent ==
    [][(rf.pc = "commit" /\ rf' # rf) =>
          LET uf == rf.ufs[rf.i]
              before == IF rf.white THEN WhitelistFilters ELSE Filters
              after == IF rf.white THEN WhitelistFilters' ELSE Filters'
          IN  \A k \in 1..Len(before) :
                 (before[k].ID = uf.ID /\ before[k].URL = uf.URL) =>
                    /\ after[k].LastUpdated = uf.LastUpdated
                    /\ after[k].LastUpdated >= before[k].LastUpdated
                    /\ before[k].LastUpdated >= StartTime =>
                          /\ ~rf.flags[rf.i]
                          /\ after[k].checksum = before[k].checksum
                          /\ after[k].RulesCount = before[k].RulesCount
                          /\ after[k].Name = before[k].Name]_vars

\* A second pass is about to commit: the filter was refreshed by an earlier
\* pass, it was fetched again at a later time, and no change is reported.
C11_Witness ==
    /\ rf.pc = "commit"
    /\ ~rf.flags[rf.i]
    /\ \E k \in 1..Len(Filters) :
          /\ Filters[k].ID = rf.ufs[rf.i].ID
          /\ Filters[k].LastUpdated >= StartTime
          /\ Filters[k].checksum # 0
          /\ rf.ufs[rf.i].LastUpdated > Filters[k].LastUpdated

----------------------------------------------------------------------------
(* C12 *)

\* C12: the scheduler's sleep interval never decreases and never exceeds
\* maxInterval; an executed cycle that is not a total network failure sets it
\* to maxInterval, a total network failure doubles it up to maxInterval, and a
\* skipped tick leaves it as it is.
C12_BackoffMonotone ==
    [][/\ intval' >= intval
       /\ intval' <= maxInterval
       /\ (pc[Sched] = "reset" /\ pc'[Sched] = "sleep" /\ ~isNetworkErr)
             => intval' = maxInterval
       /\ (pc[Sched] = "sleep" /\ pc'[Sched] = "loop")
             => intval' = IF ~isNetworkErr THEN intval
                          ELSE IF 2 * intval > maxInterval THEN maxInterval
                          ELSE 2 * intval]_vars

\* The scheduler is back at the top of its loop after total network failures
\* only: the interval has been doubled from 5 up to 2560 seconds.
C12_Witness ==
    /\ pc[Sched] = "loop"
    /\ isNetworkErr
    /\ intval = 2560

----------------------------------------------------------------------------
(* C13 *)

\* C13: while refreshFiltersArray is at its calls of filter.update, the thread
\* of the refresh cycle holds config's lock neither for reading nor for
\* writing.
C13_NoLockWhileFetching ==
    rf.pc = "fetch" => (configLock.w # Refresher /\ Refresher \notin configLock.r)

\* Between two fetches of a snapshot, a filterSetProperties call holds config's
\* write lock.
C13_Witness ==
    /\ rf.pc = "fetch"
    /\ rf.i = 2
    /\ configLock.w = Admin1
    /\ adm[Admin1] = "filterSetProperties"

----------------------------------------------------------------------------
(* C14 *)

\* C14: every step that reads or changes config.Filters or
\* config.WhitelistFilters is taken by a thread that holds config's lock, for
\* writing if it changes them: the bodies of filterAdd and filterSetProperties,
\* filterExists, the snapshot and the commit of refreshFiltersArray, and the
\* enableFilters of a refresh cycle.
C14_AccessUnderLock ==
    [][/\ \A a \in Admins :
             /\ (adm[a] \in {"filterAdd", "filterSetProperties"} /\ adm'[a] = "idle")
                   => configLock.w = a
             /\ (adm[a] = "filterExists" /\ adm'[a] = "idle") => a \in configLock.r
       /\ (rf.pc = "snapshot" /\ rf' # rf) => Refresher \in configLock.r
       /\ (rf.pc = "commit" /\ rf' # rf) => configLock.w = Refresher
       /\ (rf.pc = "enableFilters" /\ rf' # rf)
             => (Refresher \in configLock.r /\ configLock.w = NoThread)]_vars

----------------------------------------------------------------------------
(* C15 *)

\* The number of filters the cycle has committed as changed so far.
ChangedSoFar(c) == c.updateCount + c.count

\* C15: a refresh cycle calls enableFilters only when it has committed at
\* least one filter that update() reported changed, and returns right after
\* the call: the count of changed filters is 0 when the cycle starts, grows
\* only at the commit of a filter reported changed, and is not 0 at the call.
C15_EnableOnlyIfChanged ==
    [][/\ (rf.pc = "idle" /\ rf'.pc # "idle") => ChangedSoFar(rf') = 0
       /\ (rf.pc \in {"RLock", "snapshot", "fetch", "Lock", "finish"} /\ rf'.pc # "idle")
             => ChangedSoFar(rf') = ChangedSoFar(rf)
       /\ (rf.pc = "commit" /\ rf' # rf /\ ~rf.flags[rf.i])
             => ChangedSoFar(rf') = ChangedSoFar(rf)
       /\ (rf.pc # "enableFilters" /\ rf'.pc = "idle" /\ ret'.op = "refreshFiltersIfNecessary")
             => ~ret'.enableFilters
       /\ (rf.pc = "enableFilters" /\ rf' # rf)
             => /\ ChangedSoFar(rf) # 0
                /\ rf'.pc = "idle"
                /\ ret'.enableFilters]_vars

\* A cycle has just returned after it called enableFilters: one of the two
\* block-lists it fetched was changed.
C15_Witness ==
    /\ ret.op = "refreshFiltersIfNecessary"
    /\ ret.enableFilters
    /\ ret.updateCount = 1
    /\ Len(Filters) = 2
    /\ \A k \in 1..2 : Filters[k].Enabled /\ Filters[k].LastUpdated = StartTime

----------------------------------------------------------------------------
(* C16 *)

\* C16: every filter.update() that refreshFiltersArray calls is for a filter
\* that is enabled in the store, and in a cycle that is not forced for one
\* whose LastUpdated plus the update interval has passed.
C16_FetchesEnabledAndDueOnly ==
    [][(rf.pc = "fetch" /\ rf' # rf) =>
          LET uf == rf.ufs[rf.i]
              filters == IF rf.white THEN WhitelistFilters ELSE Filters
          IN  \E k \in 1..Len(filters) :
                 /\ filters[k].ID = uf.ID
                 /\ filters[k].Enabled
                 /\ ~rf.force => filters[k].LastUpdated + updateIntervalHours <= now]_vars

----------------------------------------------------------------------------
(* C17 *)

\* C17: filterSetProperties(url, newf, whitelist) returns 0 and changes
\* nothing when the chosen collection has no filter with this URL; when it has
\* one, newf.URL is another URL and a filter of either collection has it, the
\* call returns statusURLExists alone and leaves URL, Enabled, RulesCount,
\* checksum and LastUpdated of the filter, and every other filter, as they are.
C17_URLConflictStatus ==
    [][\A a \in Admins \ {Admin1}, url \in URLs, newURL \in URLs,
          newEnabled \in BOOLEAN, whitelist \in BOOLEAN :
          FilterSetProperties(a, url, [Name |-> DefaultName, URL |-> newURL,
                                       Enabled |-> newEnabled], whitelist) =>
             LET before == IF whitelist THEN WhitelistFilters ELSE Filters
                 after == IF whitelist THEN WhitelistFilters' ELSE Filters'
                 found == {i \in 1..Len(before) : before[i].URL = url}
                 inUse == \E j \in 1..Len(AllFilters) : AllFilters[j].URL = newURL
             IN  /\ (IF whitelist THEN Filters' = Filters
                                  ELSE WhitelistFilters' = WhitelistFilters)
                 /\ Len(after) = Len(before)
                 /\ found = {} =>
                       /\ ret' = [op |-> "filterSetProperties", value |-> 0]
                       /\ after = before
                 /\ (found # {} /\ newURL # url /\ inUse) =>
                       /\ ret' = [op |-> "filterSetProperties", value |-> statusURLExists]
                       /\ statusURLExists # 0
                       /\ (statusURLExists \div statusFound) % 2 = 0
                       /\ \A i \in 1..Len(before) :
                             /\ after[i].URL = before[i].URL
                             /\ after[i].Enabled = before[i].Enabled
                             /\ after[i].RulesCount = before[i].RulesCount
                             /\ after[i].checksum = before[i].checksum
                             /\ after[i].LastUpdated = before[i].LastUpdated]_vars

\* A filterSetProperties has just returned statusURLExists for a loaded filter
\* while the other collection holds the filter with the URL asked for.
C17_Witness ==
    /\ ret = [op |-> "filterSetProperties", value |-> statusURLExists]
    /\ Len(Filters) = 1 /\ Len(WhitelistFilters) = 1
    /\ Filters[1].RulesCount # 0

----------------------------------------------------------------------------
(* C18 *)

\* The lines of a content: the bytes between line ends, the bytes after the
\* last line end included when there are any.
RECURSIVE Lines(_)
Lines(data) ==
    IF data = <<>> THEN <<>>
    ELSE IF \E i \in 1..Len(data) : data[i] = "\n"
       THEN LET lf == CHOOSE i \in 1..Len(data) :
                         data[i] = "\n" /\ \A j \in 1..(i - 1) : data[j] # "\n"
            IN  <<SubSeq(data, 1, lf - 1)>> \o Lines(SubSeq(data, lf + 1, Len(data)))
       ELSE <<data>>

\* The number of lines that are not empty and do not start with '!'.
RuleLines(data) ==
    Cardinality({k \in 1..Len(Lines(data)) :
                    LET line == TrimSpace(Lines(data)[k]) IN
                    line # <<>> /\ line[1] # "!"})

\* C18: for every content, also one whose last line has no line end, the
\* RulesCount that parseFilterContents returns is the number of non-empty lines
\* that do not start with '!', and the checksum is the checksum of all bytes
\* of the content.
C18_ParseCoversAll ==
    \A i \in 1..Len(Filters) :
       (Filters[i].LastUpdated # ZeroTime /\ files[Filters[i].ID].exists) =>
          /\ Filters[i].RulesCount = RuleLines(files[Filters[i].ID].data)
          /\ Filters[i].checksum = crc32Update(0, files[Filters[i].ID].data)

----------------------------------------------------------------------------
(* C19 *)

\* What the refreshFiltersArray call of a scope reported as network error to
\* the cycle c.
ScopeError(c, white) == IF white THEN c.netErrorW ELSE c.netError

----------------------------------------------------------------------------
(* C20 *)

\* C20: under fair scheduling every refreshFilters call with important = true
\* gets refreshLock and runs its cycle, and returns nil as its error, whoever
\* else holds or waits for the mutex when it arrives.
C20_ImportantCallCompletes ==
    \A t \in Callers :
       /\ (pc[t] = "lock" /\ important[t]) ~> (pc[t] = "body" /\ refreshLock = t)
       /\ (pc[t] = "lock" /\ important[t]) ~> (pc[t] = "ret" /\ result[t] = RetNil)

\* Two important calls wait for refreshLock at once while the scheduler runs
\* a cycle.
C20_Witness ==
    /\ refreshLock = Sched
    /\ pc[Sched] = "body"
    /\ \A t \in Callers : pc[t] = "lock" /\ important[t]

----------------------------------------------------------------------------
(* C21: disabled filters stay unloaded *)

\* C21: in every reachable state each disabled filter of the store, block-list
\* or allow-list, has RulesCount = 0 and checksum = 0.
C21_DisabledFiltersUnloaded ==
    \A white \in BOOLEAN :
       \A k \in 1..Len(Collection(white)) :
          ~Collection(white)[k].Enabled =>
             /\ Collection(white)[k].RulesCount = 0
             /\ Collection(white)[k].checksum = 0

----------------------------------------------------------------------------
(* C22: replaced content reaches the store and the serving engine *)

\* The cycle is inside refreshFiltersIfNecessary and has counted an update.
UpdateCounted(c) == c.pc # "idle" /\ c.updateCount > 0

\* C22: a cycle that replaced a filter's content file (update() returned true
\* for it) commits the new metadata to the store entry of that filter, counts
\* it, keeps the count to the end of refreshFiltersIfNecessary and calls
\* enableFilters before it returns.  Stated for the steps of the cycle
\* (rf' # rf).
C22_ReplacedContentIsActivated ==
    [][rf' # rf =>
       /\ (rf.pc = "commit" /\ rf.flags[rf.i]) =>
             LET uf == rf.ufs[rf.i]
                 after == IF rf.white THEN WhitelistFilters' ELSE Filters'
             IN  /\ \E k \in 1..Len(after) :
                       /\ after[k].ID = uf.ID
                       /\ after[k].checksum = uf.checksum
                       /\ after[k].RulesCount = uf.RulesCount
                 /\ rf'.count > 0 \/ UpdateCounted(rf')
       /\ (rf.pc = "commit" /\ rf'.pc \notin {"Lock", "commit"}
              /\ \E i \in 1..Len(rf.flags) : rf.flags[i]) => UpdateCounted(rf')
       /\ (UpdateCounted(rf) /\ rf.pc # "enableFilters") => UpdateCounted(rf')
       /\ (UpdateCounted(rf) /\ rf.pc = "finish") => rf'.pc = "enableFilters"
       /\ rf.pc = "enableFilters" =>
             /\ ret'.op = "refreshFiltersIfNecessary"
             /\ ret'.enableFilters
             /\ ret'.SetFilters = enableFilters
      ]_vars

====
